---- MODULE Spec2Model ----
(***************************************************************************)
(* cyclone.js: an adaptation of the HTML5 structured cloning algorithm.    *)
(*                                                                         *)
(* The module CY exposes clone, defineCloneProcedure and                   *)
(* clearCustomCloneProcedures.  The state is the private registry          *)
(* _customCloneProcedures, and, while a clone call runs, the heap of       *)
(* objects, the call's TransferMap and the chain of active                 *)
(* _handleCollectionClone loops.                                           *)
(***************************************************************************)
EXTENDS Integers, Sequences, FiniteSets

\* Number of objects an input graph may hold.
NumObjs == 2

\* Largest number of procedures the host registers.
MaxProcs == 2

\* Property names (indices for arrays) an input object may own.
Keys == {0, 1}

(***************************************************************************)
(* JavaScript values.  A value is a primitive (undefined, null, a number,  *)
(* ...), a function object, or a reference to a heap object; typeof tells  *)
(* them apart exactly as the code's tests do.                              *)
(***************************************************************************)
Val(kind, id) == [kind |-> kind, id |-> id]

Undefined == Val("undefined", 0)

Null == Val("null", 0)

Prim == Val("number", 5)

Fn == Val("function", 1)

Ref(id) == Val("object", id)

\* typeof: null is an "object", a function is a "function".
TypeOf(v) == IF v.kind = "null" THEN "object" ELSE v.kind

\* {}.toString.call(input): the class of the object, "[object X]" as X.
_toString(input) == input.tag

\* The flags of a regular expression as the three booleans the code reads.
NoRegExp == [source |-> "", global |-> FALSE, ignoreCase |-> FALSE, multiline |-> FALSE]

\* A heap object: its class tag, its primitive value ([[PrimitiveValue]] of
\* a wrapper, the time value of a Date), its pattern when it is a RegExp,
\* whether it has a cloneNode method, its length (arrays), its prototype and
\* its own enumerable properties.
Obj(tag, prim, re, cloneNode, length, proto, props) ==
    [tag |-> tag, prim |-> prim, re |-> re, cloneNode |-> cloneNode,
     length |-> length, proto |-> proto, props |-> props]

NoProps == [k \in {} |-> Null]

Range(s) == {s[i] : i \in 1..Len(s)}

\* Array.prototype.indexOf with strict equality, 1-based; 0 stands for -1.
IndexOf(s, x) ==
    IF \E i \in 1..Len(s) : s[i] = x
    THEN CHOOSE i \in 1..Len(s) : s[i] = x /\ \A j \in 1..(i - 1) : s[j] # x
    ELSE 0

\* The order in which for-in enumerates the own keys: ascending.
RECURSIVE KeySeq(_)
KeySeq(S) ==
    IF S = {} THEN <<>>
    ELSE LET m == CHOOSE x \in S : \A y \in S : x <= y
         IN <<m>> \o KeySeq(S \ {m})

(***************************************************************************)
(* The inputs of clone: a root value and the objects reachable from it.    *)
(* Objects are numbered 1..n in the order a depth-first walk from the root *)
(* meets them, so that every object of a graph is reachable and no graph   *)
(* is listed twice under two numberings.  Graphs of one or two objects     *)
(* range over every class the switch distinguishes and every kind of       *)
(* member; graphs of up to NumObjs objects range over every shape of plain *)
(* records that refer to one another.                                      *)
(***************************************************************************)
MemberVals(n) == {Prim, Fn} \cup {Ref(i) : i \in 1..n}

PropMaps(n) == UNION {[S -> MemberVals(n)] : S \in SUBSET Keys}

\* input.length of an array whose own indices are DOMAIN props.
LengthOf(props) ==
    IF DOMAIN props = {} THEN 0
    ELSE 1 + CHOOSE m \in DOMAIN props : \A k \in DOMAIN props : k <= m

Records(n) == {Obj("Object", 0, NoRegExp, FALSE, 0, "Object", p) : p \in PropMaps(n)}

Arrays(n) == {Obj("Array", 0, NoRegExp, FALSE, LengthOf(p), "Array", p) : p \in PropMaps(n)}

Wrappers == {Obj(t, 7, NoRegExp, FALSE, 0, t, NoProps) : t \in {"String", "Number", "Boolean", "Date"}}

RegExps == {Obj("RegExp", 0, [source |-> "ab", global |-> TRUE, ignoreCase |-> TRUE, multiline |-> FALSE],
                FALSE, 0, "RegExp", NoProps)}

\* A DOM element with or without a cloneNode method, and an object of a
\* class the switch does not know (an Error instance).
Elements == {Obj("HTMLDivElement", 0, NoRegExp, c, 0, "HTMLDivElement", NoProps) : c \in BOOLEAN}

Errors == {Obj("Error", 0, NoRegExp, FALSE, 0, "Error", NoProps)}

InputObjs(n) == Records(n) \cup Arrays(n) \cup Wrappers \cup RegExps \cup Elements \cup Errors

RECURSIVE Dfs(_, _, _), DfsKeys(_, _, _, _)
Dfs(h, id, acc) ==
    IF id \in Range(acc) THEN acc
    ELSE DfsKeys(h, id, KeySeq(DOMAIN h[id].props), Append(acc, id))

DfsKeys(h, id, ks, acc) ==
    IF ks = <<>> THEN acc
    ELSE LET v == h[id].props[Head(ks)]
         IN DfsKeys(h, id, Tail(ks), IF v.kind = "object" THEN Dfs(h, v.id, acc) ELSE acc)

NoHeap == [i \in {} |-> Obj("Object", 0, NoRegExp, FALSE, 0, "Object", NoProps)]

\* The heaps of n objects drawn from objs, in depth-first numbering.
Heaps(n, objs) == {g \in [1..n -> objs] : Dfs(g, 1, <<>>) = [i \in 1..n |-> i]}

RichGraphs ==
    {[root |-> v, heap |-> NoHeap] : v \in {Undefined, Null, Prim, Fn}}
    \cup UNION {{[root |-> Ref(1), heap |-> h] : h \in Heaps(n, InputObjs(n))} : n \in {1, 2}}

\* Plain records all of whose members are references.
ShapeObjs(n) ==
    {Obj("Object", 0, NoRegExp, FALSE, 0, "Object", p) :
        p \in UNION {[S -> {Ref(i) : i \in 1..n}] : S \in SUBSET Keys}}

Shapes == UNION {{[root |-> Ref(1), heap |-> h] : h \in Heaps(n, ShapeObjs(n))} : n \in 1..NumObjs}

Graphs == RichGraphs \cup Shapes

\* The graphs in which only the root has members.
FlatGraphs == {g \in Graphs : \A i \in DOMAIN g.heap : i # 1 => DOMAIN g.heap[i].props = {}}

(***************************************************************************)
(* Transfer maps: two parallel arrays, inputs[i] mapped to outputs[i].     *)
(***************************************************************************)
TransferMap == [inputs |-> <<>>, outputs |-> <<>>]

\* TransferMapSet with the pair never recorded.
TransferMapSet_Drops(tMap, input, output) == tMap

TransferMapSet(tMap, input, output) ==
    IF IndexOf(tMap.inputs, input) = 0
    THEN [inputs |-> Append(tMap.inputs, input), outputs |-> Append(tMap.outputs, output)]
    ELSE tMap

\* TransferMapGet answering with the object found in inputs, not its output.
TransferMapGet_ReturnsInput(tMap, input) ==
    LET idx == IndexOf(tMap.inputs, input)
    IN IF idx > 0 THEN tMap.inputs[idx] ELSE Null

\* TransferMapGet that never finds its argument.
TransferMapGet_NeverFinds(tMap, input) == Null

TransferMapGet(tMap, input) ==
    LET idx == IndexOf(tMap.inputs, input)
    IN IF idx > 0 THEN tMap.outputs[idx] ELSE Null

(***************************************************************************)
(* Arguments of defineCloneProcedure.  typ is typeof procObj, nul tells    *)
(* procObj === null, detect and copy are typeof procObj.detect and typeof  *)
(* procObj.copy.  For an argument that can be called back, tags is the set *)
(* of classes its detect answers true for, result is what its copy         *)
(* returns (a new object, null, or undefined), and effect is what its      *)
(* detect does to the module besides answering: nothing, a call of         *)
(* CY.clearCustomCloneProcedures, or a call of CY.defineCloneProcedure.    *)
(***************************************************************************)
ProcObj(typ, nul, detect, copy, tags, result, effect) ==
    [typ |-> typ, nul |-> nul, detect |-> detect, copy |-> copy,
     tags |-> tags, result |-> result, effect |-> effect]

Procedure(tags, result, effect) ==
    ProcObj("object", FALSE, "function", "function", tags, result, effect)

\* The procedure a detect callback with effect "define" registers.
Helper == Procedure({"Object"}, "fresh", "none")

Procedures ==
    { Helper,
      Procedure({"Object", "Error"}, "null", "none"),
      Procedure({"Object"}, "undefined", "none"),
      Procedure({}, "undefined", "clear"),
      Procedure({}, "undefined", "define") }

NotProcedures ==
    { ProcObj("object", TRUE, "undefined", "undefined", {}, "undefined", "none"),
      ProcObj("undefined", FALSE, "undefined", "undefined", {}, "undefined", "none"),
      ProcObj("number", FALSE, "undefined", "undefined", {}, "undefined", "none"),
      ProcObj("function", FALSE, "function", "function", {"Object"}, "fresh", "none"),
      ProcObj("object", FALSE, "undefined", "function", {}, "fresh", "none"),
      ProcObj("object", FALSE, "function", "undefined", {"Object"}, "undefined", "none"),
      ProcObj("object", FALSE, "undefined", "undefined", {}, "undefined", "none") }

ProcObjs == Procedures \cup NotProcedures

(***************************************************************************)
(* The memory a clone call works on: the heap, the call's transfer map,    *)
(* the registry _customCloneProcedures, and the record of what each        *)
(* _handleObjectClone did (trace); hist lists the procedures that          *)
(* defineCloneProcedure accepted since the last call of                    *)
(* clearCustomCloneProcedures.                                             *)
(***************************************************************************)
Mem(heap, tMap, registry, trace, hist) ==
    [heap |-> heap, tMap |-> tMap, registry |-> registry, trace |-> trace, hist |-> hist]

\* One entry of the trace: the object handled, the registry position of the
\* procedure whose copy was called (0: none), how the call ended, its result.
Event(node, idx, how, out) == [node |-> node, idx |-> idx, how |-> how, out |-> out]

\* Objects made during a call get the identities above those of the inputs.
NewId(heap) == CHOOSE i \in (NumObjs + 1)..(NumObjs + 1 + Cardinality(DOMAIN heap)) :
                   i \notin DOMAIN heap /\ \A j \in (NumObjs + 1)..(i - 1) : j \in DOMAIN heap

Alloc(heap, obj) == [i \in DOMAIN heap \cup {NewId(heap)} |-> IF i \in DOMAIN heap THEN heap[i] ELSE obj]

\* What calling proc.detect does to the module: a detect with effect "clear"
\* calls CY.clearCustomCloneProcedures(), one with effect "define" calls
\* CY.defineCloneProcedure(Helper) while the registry has room.
DetectEffect(proc, m) ==
    CASE proc.effect = "clear" -> [m EXCEPT !.registry = <<>>, !.hist = <<>>]
      [] proc.effect = "define" /\ Len(m.registry) < MaxProcs ->
            [m EXCEPT !.registry = Append(@, Helper), !.hist = Append(@, Helper)]
      [] OTHER -> m

\* The while (procIdx--) loop.  procIdx is the value tested by the loop
\* condition, so the body reads _customCloneProcedures[procIdx - 1], which is
\* position procIdx here (sequences start at 1).  The registry is read anew
\* on every iteration.
RECURSIVE ScanProcedures(_, _, _)
ScanProcedures(m, obj, procIdx) ==
    IF procIdx = 0
    THEN [m |-> m, copy |-> Undefined, idx |-> 0, threw |-> FALSE]
    ELSE IF procIdx > Len(m.registry)
    THEN [m |-> m, copy |-> Undefined, idx |-> 0, threw |-> TRUE]
    ELSE LET proc == m.registry[procIdx]
             m1 == DetectEffect(proc, m)
         IN IF m.heap[obj].tag \in proc.tags
            THEN CASE proc.result = "fresh" ->
                        [m |-> [m1 EXCEPT !.heap = Alloc(m.heap, Obj("Object", procIdx, NoRegExp, FALSE, 0, "Custom", NoProps))],
                         copy |-> Ref(NewId(m.heap)), idx |-> procIdx, threw |-> FALSE]
                   [] proc.result = "null" ->
                        [m |-> m1, copy |-> Null, idx |-> procIdx, threw |-> FALSE]
                   [] OTHER ->
                        [m |-> m1, copy |-> Undefined, idx |-> procIdx, threw |-> FALSE]
            ELSE ScanProcedures(m1, obj, procIdx - 1)

\* The scan from the oldest procedure to the latest.
RECURSIVE ScanOldestFirst(_, _, _)
ScanOldestFirst(m, obj, i) ==
    IF i > Len(m.registry)
    THEN [m |-> m, copy |-> Undefined, idx |-> 0, threw |-> FALSE]
    ELSE LET proc == m.registry[i]
             m1 == DetectEffect(proc, m)
         IN IF m.heap[obj].tag \in proc.tags
            THEN CASE proc.result = "fresh" ->
                        [m |-> [m1 EXCEPT !.heap = Alloc(m.heap, Obj("Object", i, NoRegExp, FALSE, 0, "Custom", NoProps))],
                         copy |-> Ref(NewId(m.heap)), idx |-> i, threw |-> FALSE]
                   [] proc.result = "null" ->
                        [m |-> m1, copy |-> Null, idx |-> i, threw |-> FALSE]
                   [] OTHER ->
                        [m |-> m1, copy |-> Undefined, idx |-> i, threw |-> FALSE]
            ELSE ScanOldestFirst(m1, obj, i + 1)

_attemptCustomClone_OldestFirst(m, obj) == ScanOldestFirst(m, obj, 1)

_attemptCustomClone(m, obj) == ScanProcedures(m, obj, Len(m.registry))

\* The flags string, then new RegExp(re.source, flags).
_handleRegExpClone(re) ==
    LET flags == (IF re.global THEN <<"g">> ELSE <<>>)
                 \o (IF re.ignoreCase THEN <<"i">> ELSE <<>>)
                 \o (IF re.multiline THEN <<"m">> ELSE <<>>)
    IN [source |-> re.source, global |-> "g" \in Range(flags),
        ignoreCase |-> "i" \in Range(flags), multiline |-> "m" \in Range(flags)]

\* _htmlElementRE.test(obType) on the classes of the model.
_htmlElementRE(obType) == obType \in {"HTMLElement", "HTMLDivElement"}

\* The switch on obType: the new object, whether it is a collection, and
\* whether the default branch threw.
Switch(input) ==
    LET obType == _toString(input)
    IN CASE obType \in {"String", "Number", "Boolean", "Date"} ->
              [threw |-> FALSE, isCollection |-> FALSE,
               output |-> Obj(obType, input.prim, NoRegExp, FALSE, 0, obType, NoProps)]
         [] obType = "RegExp" ->
              [threw |-> FALSE, isCollection |-> FALSE,
               output |-> Obj("RegExp", 0, _handleRegExpClone(input.re), FALSE, 0, "RegExp", NoProps)]
         [] obType = "Array" ->
              [threw |-> FALSE, isCollection |-> TRUE,
               output |-> Obj("Array", 0, NoRegExp, FALSE, input.length, "Array", NoProps)]
         [] obType = "Object" ->
              [threw |-> FALSE, isCollection |-> TRUE,
               output |-> Obj("Object", 0, NoRegExp, FALSE, 0, input.proto, NoProps)]
         [] OTHER ->
              IF _htmlElementRE(obType) /\ input.cloneNode
              THEN [threw |-> FALSE, isCollection |-> FALSE,
                    output |-> Obj(obType, 0, NoRegExp, TRUE, 0, input.proto, NoProps)]
              ELSE [threw |-> TRUE, isCollection |-> FALSE, output |-> input]

\* The outcome of a call: status is "done" (out is the value returned),
\* "collection" (out is the new shell, whose members are still to be
\* cloned by _handleCollectionClone) or "threw".
Outcome(status, out, m) == [status |-> status, out |-> out, m |-> m]

Log(m, e) == [m EXCEPT !.trace = Append(m.trace, e)]

\* The part of _handleObjectClone after the custom attempt a (whose copy
\* was undefined): the switch, tMap.set, and the result.
BuiltInClone(a, input) ==
    LET sw == Switch(a.m.heap[input.id])
        output == Ref(NewId(a.m.heap))
    IN IF sw.threw
       THEN Outcome("threw", Undefined, Log(a.m, Event(input.id, a.idx, "unsupported", Undefined)))
       ELSE Outcome(IF sw.isCollection THEN "collection" ELSE "done", output,
                    Log([a.m EXCEPT !.heap = Alloc(a.m.heap, sw.output),
                                    !.tMap = TransferMapSet(a.m.tMap, input, output)],
                        Event(input.id, a.idx, "builtin", output)))

\* _handleObjectClone that also records the custom copy in the transfer map.
_handleObjectClone_MapsCustom(m, input) ==
    LET _selfRef == TransferMapGet(m.tMap, input)
    IN IF _selfRef # Null
       THEN Outcome("done", _selfRef, m)
       ELSE LET a == _attemptCustomClone(m, input.id)
            IN IF a.threw
               THEN Outcome("threw", Undefined, Log(a.m, Event(input.id, 0, "TypeError", Undefined)))
               ELSE IF TypeOf(a.copy) # "undefined"
               THEN Outcome("done", a.copy,
                            Log([a.m EXCEPT !.tMap = TransferMapSet(a.m.tMap, input, a.copy)],
                                Event(input.id, a.idx, "custom", a.copy)))
               ELSE BuiltInClone(a, input)

\* The cycle check, the custom attempt (proc undefined makes proc.detect
\* throw a TypeError), then the built-in handling.
_handleObjectClone(m, input) ==
    LET _selfRef == TransferMapGet(m.tMap, input)
    IN IF _selfRef # Null
       THEN Outcome("done", _selfRef, m)
       ELSE LET a == _attemptCustomClone(m, input.id)
            IN IF a.threw
               THEN Outcome("threw", Undefined, Log(a.m, Event(input.id, 0, "TypeError", Undefined)))
               ELSE IF TypeOf(a.copy) # "undefined"
               THEN Outcome("done", a.copy, Log(a.m, Event(input.id, a.idx, "custom", a.copy)))
               ELSE BuiltInClone(a, input)

_iSClone(m, input) ==
    IF input = Null
    THEN Outcome("done", Null, m)
    ELSE IF TypeOf(input) = "object"
    THEN _handleObjectClone(m, input)
    ELSE Outcome("done", input, m)

(***************************************************************************)
(* The state.  registry is _customCloneProcedures.  While clone runs, pc   *)
(* is "cloning" and stack lists the active _handleCollectionClone loops,   *)
(* innermost last: the object being copied, its copy, and the keys the     *)
(* for-in loop has yet to visit (the first of them is the one whose value  *)
(* is being cloned when a deeper loop is active).  After the call pc is    *)
(* "returned" (result holds the value returned) or "threw".  root and reg0 *)
(* are the argument of the call and the registry it started with; ret is   *)
(* the last registry operation of the host with what it returned.          *)
(***************************************************************************)
VARIABLES registry, hist, pc, heap, root, tMap, stack, result, trace, reg0, ret

vars == <<registry, hist, pc, heap, root, tMap, stack, result, trace, reg0, ret>>

Frame(input, output, props) == [input |-> input, output |-> output, props |-> props]

Ret(op, arg, value) == [op |-> op, arg |-> arg, value |-> value]

NoArg == ProcObj("undefined", FALSE, "undefined", "undefined", {}, "undefined", "none")

NoRet == Ret("none", NoArg, "undefined")

\* A recursion deeper than the number of objects cannot happen unless an
\* object is entered twice; the model follows it one level further.
MaxDepth == NumObjs + 1

Init ==
    /\ registry = <<>>
    /\ hist = <<>>
    /\ pc = "idle"
    /\ heap = NoHeap
    /\ root = Undefined
    /\ tMap = TransferMap
    /\ stack = <<>>
    /\ result = Undefined
    /\ trace = <<>>
    /\ reg0 = <<>>
    /\ ret = NoRet

CurMem == Mem(heap, tMap, registry, trace, hist)

\* output[prop] = value
Assign(h, output, prop, value) ==
    [h EXCEPT ![output].props =
        [k \in DOMAIN @ \cup {prop} |-> IF k = prop THEN value ELSE @[k]]]

\* CY.clone(input): a new TransferMap, then _iSClone up to the first
\* _handleCollectionClone loop, if there is one.
clone(inputs) ==
    /\ pc = "idle"
    /\ \E g \in inputs :
         LET r == _iSClone(Mem(g.heap, TransferMap, registry, <<>>, hist), g.root)
         IN /\ root' = g.root
            /\ reg0' = registry
            /\ ret' = NoRet
            /\ heap' = r.m.heap
            /\ tMap' = r.m.tMap
            /\ registry' = r.m.registry
            /\ hist' = r.m.hist
            /\ trace' = r.m.trace
            /\ CASE r.status = "done" ->
                      pc' = "returned" /\ result' = r.out /\ stack' = <<>>
                 [] r.status = "collection" ->
                      /\ pc' = "cloning"
                      /\ result' = Undefined
                      /\ stack' = <<Frame(g.root.id, r.out.id, KeySeq(DOMAIN g.heap[g.root.id].props))>>
                 [] OTHER ->
                      pc' = "threw" /\ result' = Undefined /\ stack' = <<>>

\* One iteration of the for-in loop of the innermost active
\* _handleCollectionClone: output[prop] = _iSClone(input[prop], tMap), up to
\* the point where the value's own loop starts, if it has one.
_handleCollectionClone ==
    /\ pc = "cloning"
    /\ stack # <<>>
    /\ stack[Len(stack)].props # <<>>
    /\ LET top == stack[Len(stack)]
           prop == Head(top.props)
           r == _iSClone(CurMem, heap[top.input].props[prop])
       IN /\ r.status = "collection" => Len(stack) < MaxDepth
          /\ tMap' = r.m.tMap
          /\ registry' = r.m.registry
          /\ hist' = r.m.hist
          /\ trace' = r.m.trace
          /\ UNCHANGED <<root, reg0, ret>>
          /\ CASE r.status = "done" ->
                    /\ heap' = Assign(r.m.heap, top.output, prop, r.out)
                    /\ stack' = [stack EXCEPT ![Len(stack)].props = Tail(@)]
                    /\ UNCHANGED <<pc, result>>
               [] r.status = "collection" ->
                    /\ heap' = r.m.heap
                    /\ stack' = Append(stack, Frame(heap[top.input].props[prop].id, r.out.id,
                                                    KeySeq(DOMAIN heap[heap[top.input].props[prop].id].props)))
                    /\ UNCHANGED <<pc, result>>
               [] OTHER ->
                    /\ heap' = r.m.heap
                    /\ stack' = <<>>
                    /\ pc' = "threw"
                    /\ result' = Undefined

\* The innermost loop is over: _handleObjectClone returns output, to the
\* assignment of the loop that called it or to the caller of clone.
Return ==
    /\ pc = "cloning"
    /\ stack # <<>>
    /\ stack[Len(stack)].props = <<>>
    /\ LET top == stack[Len(stack)]
       IN IF Len(stack) = 1
          THEN /\ pc' = "returned"
               /\ result' = Ref(top.output)
               /\ stack' = <<>>
               /\ UNCHANGED heap
          ELSE LET parent == stack[Len(stack) - 1]
               IN /\ heap' = Assign(heap, parent.output, Head(parent.props), Ref(top.output))
                  /\ stack' = Append(SubSeq(stack, 1, Len(stack) - 2),
                                     [parent EXCEPT !.props = Tail(@)])
                  /\ UNCHANGED <<pc, result>>
    /\ UNCHANGED <<registry, hist, root, tMap, trace, reg0, ret>>

\* The host goes on to a registry operation: what it held of the last clone
\* call (the result, the graph) is dropped.  clone is called from there.
Forget ==
    /\ pc' = "idle"
    /\ heap' = NoHeap
    /\ root' = Undefined
    /\ tMap' = TransferMap
    /\ stack' = <<>>
    /\ result' = Undefined
    /\ trace' = <<>>
    /\ reg0' = <<>>

\* The value of CY.defineCloneProcedure(procObj): "true", "false", or
\* "TypeError" when reading procObj.detect throws.
DefineValue(procObj) ==
    IF procObj.typ = "object"
    THEN IF procObj.nul
         THEN "TypeError"
         ELSE IF procObj.detect = "function" /\ procObj.copy = "function"
              THEN "true"
              ELSE "false"
    ELSE "false"

defineCloneProcedure ==
    /\ pc # "cloning"
    /\ \E procObj \in ProcObjs :
         /\ DefineValue(procObj) = "true" => Len(registry) < MaxProcs
         /\ registry' = IF DefineValue(procObj) = "true" THEN Append(registry, procObj) ELSE registry
         /\ hist' = IF DefineValue(procObj) = "true" THEN Append(hist, procObj) ELSE hist
         /\ ret' = Ret("define", procObj, DefineValue(procObj))
    /\ Forget

clearCustomCloneProcedures ==
    /\ pc # "cloning"
    /\ registry' = <<>>
    /\ hist' = <<>>
    /\ ret' = Ret("clear", NoArg, "undefined")
    /\ Forget

\* The host between calls: it registers and clears procedures and clones
\* graphs whose members are values or member-less objects.
Next ==
    \/ clone(FlatGraphs)
    \/ _handleCollectionClone
    \/ Return
    \/ defineCloneProcedure
    \/ clearCustomCloneProcedures

Spec == Init /\ [][Next]_vars

\* One call of clone with the registry as the module creates it (empty): a
\* running call goes on until it returns or throws, nothing suspends it.
NextClone ==
    \/ clone(Graphs)
    \/ _handleCollectionClone
    \/ Return

FairSpec == Init /\ [][NextClone]_vars /\ WF_vars(_handleCollectionClone) /\ WF_vars(Return)

(***************************************************************************)
(* Vocabulary of the properties.                                           *)
(***************************************************************************)
\* The objects of the input graph of the current call, and those made since.
Originals == {i \in DOMAIN heap : i <= NumObjs}

Made == {i \in DOMAIN heap : i > NumObjs}

\* The object the call's transfer map holds for an original.
CloneOf(v) == tMap.outputs[CHOOSE i \in 1..Len(tMap.inputs) : tMap.inputs[i] = v]

Mapped(v) == \E i \in 1..Len(tMap.inputs) : tMap.inputs[i] = v

\* No procedure's copy was called during the current call.
CustomFree == \A i \in 1..Len(trace) : trace[i].idx = 0

\* The objects a value leads to through members, the value included.
RECURSIVE Closure(_)
Closure(S) ==
    LET T == S \cup {heap[v.id].props[k] : <<v, k>> \in
                        {<<w, j>> \in S \X Keys : w.kind = "object" /\ j \in DOMAIN heap[w.id].props}}
    IN IF T = S THEN S ELSE Closure(T)

ReachableFrom(v) == Closure({v})

\* The input graph holds only arrays and plain records.
PlainGraph == \A n \in Originals : heap[n].tag \in {"Object", "Array"}

\* detect callbacks that only answer: none clears or defines.
Pure(reg) == \A i \in 1..Len(reg) : reg[i].effect = "none"

\* proc.detect(obj)
Detects(proc, n) == heap[n].tag \in proc.tags

\* The position in reg of the latest procedure that detects n; 0 if none.
Winner(reg, n) ==
    IF \E i \in 1..Len(reg) : Detects(reg[i], n)
    THEN CHOOSE i \in 1..Len(reg) : Detects(reg[i], n) /\ \A j \in (i + 1)..Len(reg) : ~Detects(reg[j], n)
    ELSE 0

InInputGraph(v) == v.kind = "function" \/ (v.kind = "object" /\ v.id \in Originals)

MemberForMember(n) ==
    /\ Mapped(Ref(n))
    /\ LET o == heap[n]
           c == heap[CloneOf(Ref(n)).id]
       IN /\ c.tag = o.tag /\ c.prim = o.prim /\ c.re = o.re
          /\ c.length = o.length /\ c.proto = o.proto
          /\ DOMAIN c.props = DOMAIN o.props
          /\ \A k \in DOMAIN o.props :
               IF o.props[k].kind = "object"
               THEN Mapped(o.props[k]) /\ c.props[k] = CloneOf(o.props[k])
               ELSE c.props[k] = o.props[k]

Unrecognized(v) ==
    \/ v.kind = "function"
    \/ /\ v.kind = "object"
       /\ heap[v.id].tag \notin {"String", "Number", "Boolean", "Date", "RegExp", "Array", "Object"}
       /\ ~(_htmlElementRE(heap[v.id].tag) /\ heap[v.id].cloneNode)
       /\ Winner(reg0, v.id) = 0

Exposes(procObj) ==
    /\ procObj.typ \in {"object", "function"}
    /\ ~procObj.nul
    /\ procObj.detect = "function"
    /\ procObj.copy = "function"

CopyValue(proc, out) ==
    CASE proc.result = "null" -> out = Null
      [] proc.result = "undefined" -> out = Undefined
      [] OTHER -> out.kind = "object"

NoMatch == \A i \in 1..Len(registry) : registry[i].tags \cap {"Object", "Array"} = {}

ClonedOnce ==
    \A i \in 1..Len(trace), j \in 1..Len(trace) :
        (i # j /\ trace[i].how = "builtin" /\ trace[j].how = "builtin") => trace[i].node # trace[j].node

CustomCopies(n) == Cardinality({i \in 1..Len(trace) : trace[i].node = n /\ trace[i].how = "custom"})

Occurrences(n) ==
    Cardinality({<<m, k>> \in Originals \X Keys :
                    Mapped(Ref(m)) /\ k \in DOMAIN heap[m].props /\ heap[m].props[k] = Ref(n)})
    + (IF root = Ref(n) THEN 1 ELSE 0)

(***************************************************************************)
(* C1.  Cycle preservation: when clone has returned from a graph of arrays *)
(* and plain records that no custom procedure took part in, every member   *)
(* that closes a cycle in the input (it refers to an object from which the *)
(* member's owner is reachable, the owner itself for a.self = a) refers,   *)
(* in the owner's clone, to the clone of that object, which is an object   *)
(* made by the call and never an original; the value returned is the       *)
(* clone of the root.                                                      *)
(***************************************************************************)
C1_CyclePreservation ==
    (pc = "returned" /\ CustomFree /\ PlainGraph /\ root.kind = "object") =>
        /\ Mapped(root) /\ result = CloneOf(root)
        /\ \A n \in Originals : \A k \in DOMAIN heap[n].props :
             LET target == heap[n].props[k]
             IN (target.kind = "object" /\ Ref(n) \in ReachableFrom(target)) =>
                  /\ Mapped(Ref(n)) /\ Mapped(target)
                  /\ CloneOf(target).id \in Made
                  /\ k \in DOMAIN heap[CloneOf(Ref(n)).id].props
                  /\ heap[CloneOf(Ref(n)).id].props[k] = CloneOf(target)

\* clone(a) has returned c for a record a with a[0] = a, and c[0] = c.
C1_Witness ==
    /\ pc = "returned" /\ CustomFree /\ PlainGraph
    /\ root = Ref(1) /\ 0 \in DOMAIN heap[1].props /\ heap[1].props[0] = Ref(1)
    /\ result.kind = "object" /\ result.id \in Made
    /\ heap[result.id].props[0] = result

(***************************************************************************)
(* C2.  Shared-reference preservation: when clone has returned and no      *)
(* custom procedure took part, two members of the input that refer to the  *)
(* same original refer, in the clones of their owners, to one and the same *)
(* object, and the call has made exactly one object per original.          *)
(***************************************************************************)
C2_SharedReferencePreservation ==
    (pc = "returned" /\ CustomFree) =>
        /\ Cardinality(Made) = Cardinality(Originals)
        /\ \A n1 \in Originals, n2 \in Originals :
             \A k1 \in DOMAIN heap[n1].props, k2 \in DOMAIN heap[n2].props :
                (heap[n1].props[k1].kind = "object" /\ heap[n1].props[k1] = heap[n2].props[k2]) =>
                    /\ Mapped(Ref(n1)) /\ Mapped(Ref(n2))
                    /\ heap[CloneOf(Ref(n1)).id].props[k1] = heap[CloneOf(Ref(n2)).id].props[k2]
                    /\ heap[CloneOf(Ref(n1)).id].props[k1].id \in Made

\* clone(a) has returned c for a = {0: shared, 1: shared}, shared not a, and
\* c[0] and c[1] are the same new object.
C2_Witness ==
    /\ pc = "returned" /\ CustomFree
    /\ root = Ref(1) /\ DOMAIN heap[1].props = {0, 1}
    /\ heap[1].props[0] = Ref(2) /\ heap[1].props[1] = Ref(2)
    /\ heap[result.id].props[0] = heap[result.id].props[1]
    /\ heap[result.id].props[0].id \in Made

(***************************************************************************)
(* C3.  Identity independence, as claimed: when clone has returned for a   *)
(* composite root (an object or a callable) and no custom procedure took   *)
(* part, the result is not the root, no object or callable reachable from  *)
(* the result is one of the input graph, and every original has a clone    *)
(* equal to it member for member (same class, value, pattern, length,      *)
(* prototype and keys; members equal, object members being the clones of   *)
(* the original members).                                                  *)
(***************************************************************************)
C3_IdentityIndependence ==
    (pc = "returned" /\ CustomFree /\ root.kind \in {"object", "function"}) =>
        /\ result # root
        /\ \A v \in ReachableFrom(result) : ~InInputGraph(v)
        /\ \A n \in Originals : MemberForMember(n)

(***************************************************************************)
(* C4.  Unsupported type failure, as claimed: clone does not return when   *)
(* its argument is a callable or an object of a class the switch does not  *)
(* know that no registered procedure detects, nor when its argument is an  *)
(* array, itself detected by no procedure, that contains such a value.     *)
(***************************************************************************)
C4_UnsupportedTypeFailure ==
    (pc = "returned" /\ Pure(reg0)) =>
        /\ ~Unrecognized(root)
        /\ (root.kind = "object" /\ heap[root.id].tag = "Array" /\ Winner(reg0, root.id) = 0) =>
              \A k \in DOMAIN heap[root.id].props : ~Unrecognized(heap[root.id].props[k])

(***************************************************************************)
(* C5.  Custom procedure priority: with procedures whose detect only       *)
(* answers, every object that reached the custom resolver during the call  *)
(* had its copy made by the latest procedure, among those accepted since   *)
(* the last clearCustomCloneProcedures (hist), whose detect answers true   *)
(* for it, and by no other; an object no such procedure detects went to    *)
(* the built-in handling.                                                  *)
(***************************************************************************)
C5_CustomProcedurePriority ==
    (pc # "idle" /\ Pure(reg0)) =>
        \A i \in 1..Len(trace) :
            /\ trace[i].idx = Winner(hist, trace[i].node)
            /\ Winner(hist, trace[i].node) = 0 => trace[i].how \in {"builtin", "unsupported"}

\* Two accepted procedures detect the root; the copy of the later one, which
\* returns null, was called and clone returned null.
C5_Witness ==
    /\ pc = "returned" /\ Pure(reg0) /\ Len(hist) = 2
    /\ root.kind = "object"
    /\ Detects(hist[1], root.id) /\ Detects(hist[2], root.id)
    /\ hist[1].result = "fresh" /\ hist[2].result = "null"
    /\ Len(trace) = 1 /\ trace[1].idx = 2 /\ result = Null

(***************************************************************************)
(* C6.  Registration validation, as claimed: defineCloneProcedure returns  *)
(* true and appends its argument when the argument exposes a detect        *)
(* function and a copy function; otherwise it returns false, without       *)
(* throwing, and the registry is unchanged.                                *)
(***************************************************************************)
C6_RegistrationValidation ==
    [][ret'.op = "define" =>
          IF Exposes(ret'.arg)
          THEN ret'.value = "true" /\ registry' = Append(registry, ret'.arg)
          ELSE ret'.value = "false" /\ registry' = registry]_vars

(***************************************************************************)
(* C7.  No-match sentinel, as claimed: whenever a procedure's detect       *)
(* answered true for an object, what its copy returned (null and undefined *)
(* included) is the result for that object and the built-in dispatch was   *)
(* not applied to it.                                                      *)
(***************************************************************************)
C7_NoMatchSentinel ==
    (pc # "idle" /\ Pure(reg0)) =>
        \A i \in 1..Len(trace) :
            trace[i].idx # 0 =>
                /\ trace[i].how = "custom"
                /\ CopyValue(reg0[trace[i].idx], trace[i].out)

(***************************************************************************)
(* C8.  Registry mutation during a clone call, as claimed: whatever the    *)
(* callbacks do to the registry, the running call resolves every object    *)
(* with the registry it started with (reg0) and does not fail for it.      *)
(***************************************************************************)
C8_RegistryMutationInFlight ==
    pc # "idle" =>
        \A i \in 1..Len(trace) :
            /\ trace[i].how # "TypeError"
            /\ trace[i].idx = Winner(reg0, trace[i].node)

(***************************************************************************)
(* C9.  Termination on cyclic graphs: with no procedure registered, no     *)
(* object gets a second shell from the built-in handling during a call,    *)
(* and a call on a graph of arrays and plain records, cyclic ones          *)
(* included, comes to an end.                                              *)
(***************************************************************************)
C9_TerminationOnCycles ==
    /\ []ClonedOnce
    /\ (pc = "cloning" /\ PlainGraph /\ NoMatch) ~> (pc = "returned")

\* clone has returned from two records that refer to each other.
C9_Witness ==
    /\ pc = "returned" /\ PlainGraph /\ NoMatch
    /\ Originals = {1, 2}
    /\ \E k \in DOMAIN heap[1].props : heap[1].props[k] = Ref(2)
    /\ \E k \in DOMAIN heap[2].props : heap[2].props[k] = Ref(1)
    /\ Len(tMap.inputs) = 2

(***************************************************************************)
(* C10.  The custom path leaves the transfer map alone: with procedures    *)
(* whose detect only answers, an object whose result came from a custom    *)
(* procedure is not an input of the transfer map, and once the call has    *)
(* returned the procedure has made a copy for each occurrence of the       *)
(* object (as the root, or as a member of an object the built-in handling  *)
(* copied).                                                                *)
(***************************************************************************)
C10_CustomPathLeavesMap ==
    (pc # "idle" /\ Pure(reg0)) =>
        \A n \in Originals :
            CustomCopies(n) > 0 =>
                /\ ~Mapped(Ref(n))
                /\ pc = "returned" => CustomCopies(n) = Occurrences(n)

\* An array holds the same record twice; the procedure made two copies of
\* the record and the transfer map holds the array only.
C10_Witness ==
    /\ pc = "returned" /\ Pure(reg0)
    /\ root = Ref(1) /\ heap[1].tag = "Array"
    /\ heap[1].props = [k \in {0, 1} |-> Ref(2)]
    /\ CustomCopies(2) = 2
    /\ tMap.inputs = <<Ref(1)>>
    /\ heap[result.id].props[0] # heap[result.id].props[1]

====
